---- MODULE Spec2Model ----
(***************************************************************************)
(* The decompilation request pipeline of server.js: the middleware chain   *)
(* (rate limiter, express.raw, global error handler), the POST /decompile  *)
(* handler cut at its three awaits (fs.writeFile, execFile, fs.unlink),    *)
(* the child process run by child_process.execFile, and the temp dir.      *)
(*                                                                         *)
(* Bytes are ASCII codes.  Strings (stdout, stderr) are sequences of       *)
(* one-character strings.  Numbers that the program reads from its         *)
(* environment (MAX_FILE_SIZE, RATE_LIMIT_MAX_REQUESTS) are scaled down.   *)
(* BINARY_TIMEOUT and maxBuffer are not counted: the timer firing and a    *)
(* stream crossing maxBuffer are events of the running child.              *)
(***************************************************************************)
EXTENDS Integers, Sequences, FiniteSets, TLC

(***************************************************************************)
(* Bounds of the model.                                                    *)
(***************************************************************************)
\* CONFIG.MAX_FILE_SIZE (server.js:15, from the environment), scaled down.
MAX_FILE_SIZE == 9
\* CONFIG.RATE_LIMIT_MAX_REQUESTS (server.js:18, from the environment), scaled down.
RATE_LIMIT_MAX_REQUESTS == 2
\* The longest stdout a child that stays under maxBuffer writes.
MaxOutLen == 2
\* Number of requests in flight at once.
NumReqs == 2
\* Every body over BodyAlphabet up to this length is an input.
MaxBodyLen == 4

Reqs == 1 .. NumReqs
\* The file names temp_<hex>.bin, numbered: one per request is enough for all
\* to differ.
Names == 1 .. NumReqs
NoPath == 0

(***************************************************************************)
(* Inputs.                                                                 *)
(***************************************************************************)
\* 'Q' (a base64 digit), '!' (no base64 character), '=' (base64 padding).
BodyAlphabet == {81, 33, 61}
ContentTypes == {"none", "text/plain", "application/octet-stream"}

SeqsUpTo(S, n) == UNION {[1 .. k -> S] : k \in 0 .. n}
Rep(c, n) == [i \in 1 .. n |-> c]

\* All short bodies, and of every length up to one over the limit the bodies
\* made of base64 digits followed by a run of one character.
Payloads ==
    SeqsUpTo(BodyAlphabet, MaxBodyLen)
        \cup UNION {{Rep(81, k) \o Rep(c, n - k) : c \in BodyAlphabet, k \in 0 .. n} :
                       n \in 0 .. MAX_FILE_SIZE + 1}

\* A request on the wire: it may carry no body at all (no Content-Length, no
\* Transfer-Encoding), and it may carry no Content-Type.
WireRequests ==
    {[ctype |-> c, hasBody |-> TRUE, payload |-> p] : c \in ContentTypes, p \in Payloads}
        \cup {[ctype |-> c, hasBody |-> FALSE, payload |-> <<>>] : c \in ContentTypes}

\* Inputs of the concurrent specification: request r sends four bytes that name it.
ConcRequests(r) ==
    {[ctype |-> "application/octet-stream", hasBody |-> TRUE, payload |-> Rep(80 + r, 4)]}

StdoutChars == {"x", " "}
Stdouts == SeqsUpTo(StdoutChars, MaxOutLen)
Stderrs == SeqsUpTo({"w"}, 1)

(***************************************************************************)
(* Buffer.from(string, 'base64') as Node computes it (server.js:74).  The  *)
(* decoder never throws: characters outside the base64 alphabets are       *)
(* skipped, '=' ends the input, and a trailing group of 2 or 3 digits      *)
(* yields 1 or 2 bytes (a single trailing digit yields none).              *)
(***************************************************************************)
\* The 6-bit value of a character, or 64 when it is no base64 digit
\* (A-Z, a-z, 0-9, '+' or '-', '/' or '_').
unbase64(c) ==
    IF c >= 65 /\ c <= 90 THEN c - 65
    ELSE IF c >= 97 /\ c <= 122 THEN c - 71
    ELSE IF c >= 48 /\ c <= 57 THEN c + 4
    ELSE IF c \in {43, 45} THEN 62
    ELSE IF c \in {47, 95} THEN 63
    ELSE 64

RECURSIVE Sextets(_)
Sextets(s) ==
    IF s = <<>> THEN <<>>
    ELSE IF Head(s) = 61 THEN <<>>
    ELSE IF unbase64(Head(s)) < 64 THEN <<unbase64(Head(s))>> \o Sextets(Tail(s))
    ELSE Sextets(Tail(s))

RECURSIVE PackSextets(_)
PackSextets(v) ==
    IF Len(v) < 2 THEN <<>>
    ELSE IF Len(v) = 2 THEN <<(v[1] * 4 + (v[2] \div 16)) % 256>>
    ELSE IF Len(v) = 3
        THEN <<(v[1] * 4 + (v[2] \div 16)) % 256, ((v[2] % 16) * 16 + (v[3] \div 4)) % 256>>
    ELSE <<(v[1] * 4 + (v[2] \div 16)) % 256,
           ((v[2] % 16) * 16 + (v[3] \div 4)) % 256,
           ((v[3] % 4) * 64 + v[4]) % 256>>
             \o PackSextets(SubSeq(v, 5, Len(v)))

BufferFromBase64(s) == PackSextets(Sextets(s))

\* String({}) : what req.body.toString() yields when req.body is a plain object.
ObjectToString == <<91, 111, 98, 106, 101, 99, 116, 32, 79, 98, 106, 101, 99, 116, 93>>

\* req.body.toString() (server.js:74); the bodies of the model are ASCII, on
\* which UTF-8 decoding is the identity.
BodyToString(body) == IF body.kind = "object" THEN ObjectToString ELSE body.bytes

(***************************************************************************)
(* String.prototype.trim on stdout (server.js:109).                        *)
(***************************************************************************)
RECURSIVE TrimStart(_)
TrimStart(s) ==
    IF s = <<>> THEN <<>>
    ELSE IF Head(s) = " " THEN TrimStart(Tail(s))
    ELSE s

RECURSIVE TrimEnd(_)
TrimEnd(s) ==
    IF s = <<>> THEN <<>>
    ELSE IF s[Len(s)] = " " THEN TrimEnd(SubSeq(s, 1, Len(s) - 1))
    ELSE s

Trim(s) == TrimEnd(TrimStart(s))

(***************************************************************************)
(* Responses.                                                              *)
(***************************************************************************)
NoResponse == [status |-> 0, ctype |-> "", body |-> <<>>]
JsonError(status, message) ==
    [status |-> status, ctype |-> "application/json", body |-> <<"error", message>>]

MsgTooManyRequests == "Too many requests, please try again later."
MsgNoBytecode == "No bytecode provided"
MsgPayloadTooLarge == "Payload too large. Maximum size is MAX_FILE_SIZE bytes"
MsgTooShort == "Invalid bytecode: too short"
MsgEmptyOutput == "Decompilation failed: empty output"
MsgTimeout == "Decompilation timeout exceeded"
MsgBinaryNotFound == "Decompiler binary not found"
MsgTooComplex == "Bytecode too complex or output too large"
MsgInternalDecompilation == "Internal decompilation error"
MsgInternalServer == "Internal server error"

\* Mutant of SuccessResponse: the trimmed text is sent.
SuccessResponse_Trimmed(stdout) ==
    [status |-> 200, ctype |-> "text/plain; charset=utf-8", body |-> Trim(stdout)]

\* res.setHeader('content-type', ...); res.send(stdout) (server.js:114-115).
SuccessResponse(stdout) ==
    [status |-> 200, ctype |-> "text/plain; charset=utf-8", body |-> stdout]

\* Mutant of IsEmptyOutput: the test without trim().
IsEmptyOutput_NoTrim(stdout) == stdout = <<>>

\* The stdout test of server.js:109.
IsEmptyOutput(stdout) == stdout = <<>> \/ Len(Trim(stdout)) = 0

\* The response of the success path once the temp file is unlinked (server.js:109-115).
OutputResponse(stdout) ==
    IF IsEmptyOutput(stdout) THEN JsonError(500, MsgEmptyOutput)
    ELSE SuccessResponse(stdout)

\* The catch block's classification of the caught error (server.js:124-132).
NoError == [code |-> "", signal |-> ""]

\* Mutant of ClassifyError: without the ENOENT branch.
ClassifyError_NoEnoent(error) ==
    IF error.code = "ETIMEDOUT" THEN JsonError(504, MsgTimeout)
    ELSE IF error.signal = "SIGKILL" THEN JsonError(413, MsgTooComplex)
    ELSE JsonError(500, MsgInternalDecompilation)

\* Mutant of ClassifyError: the fall-through sends the error's own message.
ClassifyError_Leaky(error) ==
    IF error.code = "ETIMEDOUT" THEN JsonError(504, MsgTimeout)
    ELSE IF error.code = "ENOENT" THEN JsonError(500, MsgBinaryNotFound)
    ELSE IF error.signal = "SIGKILL" THEN JsonError(413, MsgTooComplex)
    ELSE JsonError(500, error.message)

ClassifyError(error) ==
    IF error.code = "ETIMEDOUT" THEN JsonError(504, MsgTimeout)
    ELSE IF error.code = "ENOENT" THEN JsonError(500, MsgBinaryNotFound)
    ELSE IF error.signal = "SIGKILL" THEN JsonError(413, MsgTooComplex)
    ELSE JsonError(500, MsgInternalDecompilation)

\* The global error handler (server.js:137-140): whatever the error, 500.
GlobalErrorHandler(err) == JsonError(500, MsgInternalServer)

(***************************************************************************)
(* State.                                                                  *)
(***************************************************************************)
VARIABLES
    pc,            \* per request: where its handler is suspended
    req,           \* per request: the request as sent
    body,          \* per request: req.body as express.raw left it
    tempFilePath,  \* per request: the handler's tempFilePath (NoPath is null)
    bytecode,      \* per request: the handler's bytecode
    child,         \* per request: the process execFile spawned, and execFile's own state
    caught,        \* per request: the error the catch block holds
    stdout,        \* per request: stdout as execFile captured it
    res,           \* per request: the response sent
    files,         \* the temp directory: path -> file
    used,          \* the random names drawn so far
    hits,          \* the rate limiter's counter for the current window
    obs,           \* per request: what was done for it (history)
    touched        \* per path: the requests on whose behalf it was written, read or unlinked

vars ==
    <<pc, req, body, tempFilePath, bytecode, child, caught, stdout, res, files, used,
      hits, obs, touched>>

NoFile == [exists |-> FALSE, data |-> <<>>]
NoBody == [kind |-> "undefined", bytes |-> <<>>]
NoBytecode == [kind |-> "none", bytes |-> <<>>]
NoChild == [state |-> "none", killed |-> FALSE, ex |-> ""]
NoRequest == [ctype |-> "none", hasBody |-> FALSE, payload |-> <<>>]
NotRead == [read |-> FALSE, found |-> FALSE, data |-> <<>>]
NoObs ==
    [overLimit |-> FALSE, admitted |-> FALSE, decoded |-> FALSE, staged |-> NoPath,
     writes |-> 0,
     created |-> FALSE, spawns |-> 0, unlinks |-> 0, unlinkFailed |-> FALSE,
     timedOut |-> FALSE, overflow |-> "", exit |-> NoError, seen |-> NotRead,
     warning |-> <<>>, sends |-> 0]

Init ==
    /\ pc = [r \in Reqs |-> "idle"]
    /\ req = [r \in Reqs |-> NoRequest]
    /\ body = [r \in Reqs |-> NoBody]
    /\ tempFilePath = [r \in Reqs |-> NoPath]
    /\ bytecode = [r \in Reqs |-> NoBytecode]
    /\ child = [r \in Reqs |-> NoChild]
    /\ caught = [r \in Reqs |-> NoError]
    /\ stdout = [r \in Reqs |-> <<>>]
    /\ res = [r \in Reqs |-> NoResponse]
    /\ files = [n \in Names |-> NoFile]
    /\ used = {}
    /\ hits = 0
    /\ obs = [r \in Reqs |-> NoObs]
    /\ touched = [n \in Names |-> {}]

ChildAlive(r) == child[r].state \in {"spawned", "running"}

(***************************************************************************)
(* Middleware.                                                             *)
(***************************************************************************)
\* Mutant of LimiterRejects: one request more than max is let through.
LimiterRejects_OffByOne(count) == count > RATE_LIMIT_MAX_REQUESTS

\* express-rate-limit (server.js:26-34): count the hit, reject above max.
LimiterRejects(count) == count + 1 > RATE_LIMIT_MAX_REQUESTS

\* express.raw({type: '*/*', limit: MAX_FILE_SIZE}) (server.js:38-41).  A request
\* without a body or without a Content-Type is not parsed: req.body is then
\* `unparsed`, which is undefined under body-parser 2 and {} under body-parser 1.
\* A body longer than the limit is passed to the error handler as a 413 error.
ExpressRaw(wire, unparsed) ==
    IF ~wire.hasBody \/ wire.ctype = "none"
        THEN [error |-> FALSE, body |-> [kind |-> unparsed, bytes |-> <<>>]]
    ELSE IF Len(wire.payload) > MAX_FILE_SIZE
        THEN [error |-> TRUE, body |-> NoBody]
    ELSE [error |-> FALSE, body |-> [kind |-> "buffer", bytes |-> wire.payload]]

(***************************************************************************)
(* The handler up to its first await (server.js:53-87).                    *)
(***************************************************************************)
\* !req.body || req.body.length === 0 (server.js:56): {} is truthy and has no length.
IsEmptyBody(b) == b.kind = "undefined" \/ (b.kind = "buffer" /\ Len(b.bytes) = 0)

\* req.body.length > CONFIG.MAX_FILE_SIZE (server.js:60).
IsTooLarge(b) == b.kind = "buffer" /\ Len(b.bytes) > MAX_FILE_SIZE

\* Whether the handler decodes (server.js:72).
IsTextPlain(ctype) == ctype = "text/plain"

\* Mutant of SelectBytecode: the body is never decoded.
SelectBytecode_NoDecode(b, ctype) == [kind |-> b.kind, bytes |-> b.bytes]

\* The bytecode chosen at server.js:71-81.  Buffer.from never throws, so the
\* catch of server.js:75-78 is never entered.
SelectBytecode(b, ctype) ==
    IF IsTextPlain(ctype) THEN [kind |-> "buffer", bytes |-> BufferFromBase64(BodyToString(b))]
    ELSE [kind |-> b.kind, bytes |-> b.bytes]

\* Mutant of IsTooShort: no bytecode is too short.
IsTooShort_Never(bc) == FALSE

\* Mutant of IsTooShort: the threshold off by one.
IsTooShort_OffByOne(bc) == bc.kind = "buffer" /\ Len(bc.bytes) < 3

\* bytecode.length < 4 (server.js:83): undefined < 4 is false.
IsTooShort(bc) == bc.kind = "buffer" /\ Len(bc.bytes) < 4

\* Mutant of RandomName: a fixed file name.
RandomName_Fixed(drawn) == CHOOSE n \in Names : TRUE

\* crypto.randomBytes(16) rendered as the file name (server.js:66-69): a name
\* no request has drawn before (128 random bits do not repeat).
RandomName(drawn) == CHOOSE n \in Names : n \notin drawn

Respond(r, response) ==
    /\ res' = [res EXCEPT ![r] = response]
    /\ pc' = [pc EXCEPT ![r] = "done"]

\* A request arrives and runs through the limiter, express.raw and the handler
\* until the handler returns or awaits fs.writeFile.
Receive(r, wires) ==
    /\ pc[r] = "idle"
    /\ \E wire \in wires, unparsed \in {"undefined", "object"} :
        LET parsed == ExpressRaw(wire, unparsed)
            name == RandomName(used)
            b == parsed.body
            bc == SelectBytecode(b, wire.ctype)
            arrived == [obs[r] EXCEPT !.overLimit = hits >= RATE_LIMIT_MAX_REQUESTS]
            sent == [arrived EXCEPT !.sends = 1]
        IN
        /\ req' = [req EXCEPT ![r] = wire]
        /\ hits' = IF hits <= RATE_LIMIT_MAX_REQUESTS THEN hits + 1 ELSE hits
        /\ IF LimiterRejects(hits)
             THEN /\ Respond(r, JsonError(429, MsgTooManyRequests))
                  /\ obs' = [obs EXCEPT ![r] = sent]
                  /\ UNCHANGED <<body, tempFilePath, bytecode, used>>
           ELSE IF parsed.error
             THEN /\ Respond(r, GlobalErrorHandler(parsed))
                  /\ obs' = [obs EXCEPT ![r] = [sent EXCEPT !.admitted = TRUE]]
                  /\ UNCHANGED <<body, tempFilePath, bytecode, used>>
           ELSE IF IsEmptyBody(b)
             THEN /\ Respond(r, JsonError(400, MsgNoBytecode))
                  /\ body' = [body EXCEPT ![r] = b]
                  /\ obs' = [obs EXCEPT ![r] = [sent EXCEPT !.admitted = TRUE]]
                  /\ UNCHANGED <<tempFilePath, bytecode, used>>
           ELSE IF IsTooLarge(b)
             THEN /\ Respond(r, JsonError(413, MsgPayloadTooLarge))
                  /\ body' = [body EXCEPT ![r] = b]
                  /\ obs' = [obs EXCEPT ![r] = [sent EXCEPT !.admitted = TRUE]]
                  /\ UNCHANGED <<tempFilePath, bytecode, used>>
           ELSE /\ body' = [body EXCEPT ![r] = b]
                /\ used' = used \cup {name}
                /\ tempFilePath' = [tempFilePath EXCEPT ![r] = name]
                /\ bytecode' = [bytecode EXCEPT ![r] = bc]
                /\ IF IsTooShort(bc)
                     THEN /\ Respond(r, JsonError(400, MsgTooShort))
                          /\ obs' = [obs EXCEPT ![r] =
                                        [sent EXCEPT !.admitted = TRUE,
                                                     !.decoded = IsTextPlain(wire.ctype)]]
                     ELSE /\ pc' = [pc EXCEPT ![r] = "writeFile"]
                          /\ res' = res
                          /\ obs' = [obs EXCEPT ![r] =
                                        [arrived EXCEPT !.admitted = TRUE,
                                                        !.decoded = IsTextPlain(wire.ctype)]]
    /\ UNCHANGED <<child, caught, stdout, files, touched>>

(***************************************************************************)
(* fs.writeFile(tempFilePath, bytecode, {mode: 0o600}) and, when it        *)
(* resolves, the call of execFile (server.js:87-100).                      *)
(***************************************************************************)
\* How fs.writeFile can fail: the error code, and whether the file was created
\* before the failure (open succeeded, write did not).
WriteFailures ==
    {[code |-> "ENOENT", created |-> FALSE],
     [code |-> "ETIMEDOUT", created |-> FALSE],
     [code |-> "ENOSPC", created |-> TRUE]}

\* How spawning the decompiler can fail: "" is success.
SpawnResults == {"", "ENOENT", "EACCES"}

\* The error object as the catch block receives it: besides code and signal it
\* has a message, and the messages of fs and execFile errors name the temp file
\* ("ENOENT: no such file or directory, open '<path>'", "Command failed:
\* <binary> <path> -e").  The message is modelled by the path it names, as text.
Thrown(r, error) ==
    [code |-> error.code, signal |-> error.signal, message |-> ToString(tempFilePath[r])]

\* Mutant of Catch: the catch block answers without cleaning up.
Catch_NoCleanup(r, error) ==
    /\ caught' = [caught EXCEPT ![r] = Thrown(r, error)]
    /\ Respond(r, ClassifyError(Thrown(r, error)))

\* The catch block up to its await (server.js:117-122): with tempFilePath set it
\* awaits fs.unlink; otherwise it answers at once.
Catch(r, error) ==
    /\ caught' = [caught EXCEPT ![r] = Thrown(r, error)]
    /\ IF tempFilePath[r] # NoPath
         THEN /\ pc' = [pc EXCEPT ![r] = "unlinkCatch"]
              /\ res' = res
         ELSE Respond(r, ClassifyError(Thrown(r, error)))

WriteFileDone(r) ==
    /\ pc[r] = "writeFile"
    /\ LET path == tempFilePath[r] IN
       \/ \* A plain object is no valid data: rejected before the file is opened.
          /\ bytecode[r].kind # "buffer"
          /\ Catch(r, [code |-> "ERR_INVALID_ARG_TYPE", signal |-> ""])
          /\ UNCHANGED <<files, touched, child, obs>>
       \/ \E f \in WriteFailures :
          /\ bytecode[r].kind = "buffer"
          /\ Catch(r, [code |-> f.code, signal |-> ""])
          /\ files' = IF f.created THEN [files EXCEPT ![path] = [exists |-> TRUE, data |-> <<>>]]
                      ELSE files
          /\ touched' = [touched EXCEPT ![path] = @ \cup {r}]
          /\ obs' = [obs EXCEPT ![r] = [@ EXCEPT !.writes = @ + 1, !.staged = path,
                                                 !.created = f.created]]
          /\ UNCHANGED child
       \/ \E s \in SpawnResults :
          /\ bytecode[r].kind = "buffer"
          /\ files' = [files EXCEPT ![path] = [exists |-> TRUE, data |-> bytecode[r].bytes]]
          /\ touched' = [touched EXCEPT ![path] = @ \cup {r}]
          /\ child' = [child EXCEPT ![r] =
                          IF s = "" THEN [state |-> "spawned", killed |-> FALSE, ex |-> ""]
                          ELSE [state |-> "failed", killed |-> FALSE, ex |-> s]]
          /\ obs' = [obs EXCEPT ![r] = [@ EXCEPT !.writes = @ + 1, !.staged = path,
                                                 !.created = TRUE,
                                                 !.spawns = IF s = "" THEN @ + 1 ELSE @]]
          /\ pc' = [pc EXCEPT ![r] = "execFile"]
          /\ UNCHANGED <<caught, res>>
    /\ UNCHANGED <<req, body, tempFilePath, bytecode, stdout, used, hits>>

(***************************************************************************)
(* child_process.execFile with {timeout, maxBuffer} (server.js:89-100).    *)
(***************************************************************************)
\* The spawn failed: execFile's callback gets the spawn error.
ExecFileError(r) ==
    /\ pc[r] = "execFile"
    /\ child[r].state = "failed"
    /\ Catch(r, [code |-> child[r].ex, signal |-> ""])
    /\ UNCHANGED <<req, body, tempFilePath, bytecode, child, stdout, files, used, hits,
                   obs, touched>>

\* The decompiler opens the file it was given.
ChildRead(r) ==
    /\ child[r].state = "spawned"
    /\ LET path == tempFilePath[r] IN
       /\ child' = [child EXCEPT ![r].state = "running"]
       /\ obs' = [obs EXCEPT ![r].seen =
                     [read |-> TRUE, found |-> files[path].exists, data |-> files[path].data]]
       /\ touched' = [touched EXCEPT ![path] = @ \cup {r}]
    /\ UNCHANGED <<pc, req, body, tempFilePath, bytecode, caught, stdout, res, files, used,
                   hits>>

\* Mutant of Timeout: the timer fires but no signal is sent.
Timeout_NoKill(r) ==
    /\ ChildAlive(r)
    /\ ~obs[r].timedOut
    /\ obs' = [obs EXCEPT ![r].timedOut = TRUE]
    /\ UNCHANGED <<pc, req, body, tempFilePath, bytecode, child, caught, stdout, res, files,
                   used, hits, touched>>

\* Mutant of Timeout: execFile rejects when the timer fires, without waiting
\* for the child to end.
Timeout_Rejects(r) ==
    /\ pc[r] = "execFile"
    /\ ChildAlive(r)
    /\ ~obs[r].timedOut
    /\ child' = [child EXCEPT ![r].killed = TRUE]
    /\ obs' = [obs EXCEPT ![r].timedOut = TRUE]
    /\ Catch(r, [code |-> "ETIMEDOUT", signal |-> ""])
    /\ UNCHANGED <<req, body, tempFilePath, bytecode, stdout, files, used, hits, touched>>

\* BINARY_TIMEOUT elapses while the child runs: execFile sends killSignal
\* (SIGTERM by default) and marks the child killed; it sets no error.
Timeout(r) ==
    /\ ChildAlive(r)
    /\ ~obs[r].timedOut
    /\ child' = [child EXCEPT ![r].killed = TRUE]
    /\ obs' = [obs EXCEPT ![r].timedOut = TRUE]
    /\ UNCHANGED <<pc, req, body, tempFilePath, bytecode, caught, stdout, res, files, used,
                   hits, touched>>

\* The child has written more than maxBuffer to a stream: execFile records
\* ERR_CHILD_PROCESS_STDIO_MAXBUFFER and sends killSignal.
Overflow(r, streams) ==
    /\ ChildAlive(r)
    /\ ~child[r].killed
    /\ \E stream \in streams :
        /\ child' = [child EXCEPT ![r] =
                        [@ EXCEPT !.killed = TRUE, !.ex = "ERR_CHILD_PROCESS_STDIO_MAXBUFFER"]]
        /\ obs' = [obs EXCEPT ![r].overflow = stream]
    /\ UNCHANGED <<pc, req, body, tempFilePath, bytecode, caught, stdout, res, files, used,
                   hits, touched>>

\* How a process ends: an exit code, or the signal that killed it.  SIGTERM
\* comes from execFile's kill, SIGKILL from the host.
ExitZero == [code |-> "0", signal |-> "null"]
ExitOne == [code |-> "1", signal |-> "null"]
BySigterm == [code |-> "null", signal |-> "SIGTERM"]
BySigkill == [code |-> "null", signal |-> "SIGKILL"]
Exits(r) == {ExitZero, ExitOne, BySigkill} \cup (IF child[r].killed THEN {BySigterm} ELSE {})

\* Mutant of ExecFileResult: the exit code is not looked at.
ExecFileResult_AnyCode(ex, exit) ==
    IF ex = "" /\ exit.signal = "null" THEN NoError
    ELSE IF ex # "" THEN [code |-> ex, signal |-> ""]
    ELSE [code |-> exit.code, signal |-> exit.signal]

\* execFile's exithandler: success only with no recorded error, code 0 and no
\* signal; a recorded error wins over the exit status; otherwise the error
\* carries the exit code and the signal.
ExecFileResult(ex, exit) ==
    IF ex = "" /\ exit.code = "0" /\ exit.signal = "null" THEN NoError
    ELSE IF ex # "" THEN [code |-> ex, signal |-> ""]
    ELSE [code |-> exit.code, signal |-> exit.signal]

\* The child ends; execFile settles; the handler goes on to fs.unlink on the
\* success path (server.js:102-106) or enters the catch block.
ChildExit(r, outs, errs) ==
    /\ pc[r] = "execFile"
    /\ ChildAlive(r)
    /\ \E exit \in Exits(r), out \in outs, err \in errs :
        LET error == ExecFileResult(child[r].ex, exit) IN
        /\ child' = [child EXCEPT ![r].state = "closed"]
        /\ stdout' = [stdout EXCEPT ![r] = out]
        /\ obs' = [obs EXCEPT ![r] = [@ EXCEPT !.exit = exit,
                                               !.warning = IF error = NoError THEN err
                                                           ELSE <<>>]]
        /\ IF error = NoError
             THEN /\ pc' = [pc EXCEPT ![r] = "unlink"]
                  /\ UNCHANGED <<caught, res>>
             ELSE Catch(r, error)
    /\ UNCHANGED <<req, body, tempFilePath, bytecode, files, used, hits, touched>>

(***************************************************************************)
(* fs.unlink(tempFilePath).catch(() => {}) and what follows it             *)
(* (server.js:106-115 and 121-132).                                        *)
(***************************************************************************)
\* On the success path tempFilePath is reset and stdout decides the response;
\* in the catch block the caught error does.
AfterUnlink(r) ==
    IF pc[r] = "unlink"
      THEN /\ tempFilePath' = [tempFilePath EXCEPT ![r] = NoPath]
           /\ Respond(r, OutputResponse(stdout[r]))
      ELSE /\ tempFilePath' = tempFilePath
           /\ Respond(r, ClassifyError(caught[r]))

\* Mutant of UnlinkDone: the empty-output branch does not return, so the 500 is
\* followed by res.send(stdout).
UnlinkDone_NoReturn(r) ==
    /\ pc[r] \in {"unlink", "unlinkCatch"}
    /\ LET path == tempFilePath[r] IN
       \E ok \in BOOLEAN :
        /\ ok => files[path].exists
        /\ files' = IF ok THEN [files EXCEPT ![path] = NoFile] ELSE files
        /\ touched' = [touched EXCEPT ![path] = @ \cup {r}]
        /\ obs' = [obs EXCEPT ![r] =
                      [@ EXCEPT !.unlinks = @ + 1, !.unlinkFailed = ~ok,
                                !.sends = IF pc[r] = "unlink" /\ IsEmptyOutput(stdout[r])
                                            THEN @ + 2 ELSE @ + 1]]
    /\ AfterUnlink(r)
    /\ UNCHANGED <<req, body, bytecode, child, caught, stdout, used, hits>>

\* Mutant of UnlinkDone: a failed unlink is answered as an internal error.
UnlinkDone_Escalates(r) ==
    /\ pc[r] \in {"unlink", "unlinkCatch"}
    /\ LET path == tempFilePath[r] IN
       \E ok \in BOOLEAN :
        /\ ok => files[path].exists
        /\ files' = IF ok THEN [files EXCEPT ![path] = NoFile] ELSE files
        /\ touched' = [touched EXCEPT ![path] = @ \cup {r}]
        /\ obs' = [obs EXCEPT ![r] = [@ EXCEPT !.unlinks = @ + 1, !.unlinkFailed = ~ok,
                                               !.sends = @ + 1]]
        /\ IF ok THEN AfterUnlink(r)
           ELSE /\ tempFilePath' = tempFilePath
                /\ Respond(r, JsonError(500, MsgInternalDecompilation))
    /\ UNCHANGED <<req, body, bytecode, child, caught, stdout, used, hits>>

\* unlink removes the file, or fails (always when there is no such file); the
\* failure is swallowed.
UnlinkDone(r) ==
    /\ pc[r] \in {"unlink", "unlinkCatch"}
    /\ LET path == tempFilePath[r] IN
       \E ok \in BOOLEAN :
        /\ ok => files[path].exists
        /\ files' = IF ok THEN [files EXCEPT ![path] = NoFile] ELSE files
        /\ touched' = [touched EXCEPT ![path] = @ \cup {r}]
        /\ obs' = [obs EXCEPT ![r] = [@ EXCEPT !.unlinks = @ + 1, !.unlinkFailed = ~ok,
                                               !.sends = @ + 1]]
    /\ AfterUnlink(r)
    /\ UNCHANGED <<req, body, bytecode, child, caught, stdout, used, hits>>

\* A request of the same client to another route (GET /health, a static file):
\* the limiter is mounted on every route (server.js:34) and counts it.
OtherRequest ==
    /\ hits <= RATE_LIMIT_MAX_REQUESTS
    /\ hits' = hits + 1
    /\ UNCHANGED <<pc, req, body, tempFilePath, bytecode, child, caught, stdout, res, files,
                   used, obs, touched>>

\* The limiter's window ends (server.js:27).
WindowReset ==
    /\ hits > 0
    /\ hits' = 0
    /\ UNCHANGED <<pc, req, body, tempFilePath, bytecode, child, caught, stdout, res, files,
                   used, obs, touched>>

(***************************************************************************)
(* Specifications.                                                         *)
(***************************************************************************)
\* One request, with every input and every outcome.
Next ==
    \/ Receive(1, WireRequests)
    \/ WriteFileDone(1)
    \/ ExecFileError(1)
    \/ ChildRead(1)
    \/ Timeout(1)
    \/ Overflow(1, {"stdout", "stderr"})
    \/ ChildExit(1, Stdouts, Stderrs)
    \/ UnlinkDone(1)

Spec == Init /\ [][Next]_vars

\* NumReqs requests in flight together within the limiter's budget, each
\* sending bytes of its own.
NextConc ==
    \/ \E r \in Reqs : Receive(r, ConcRequests(r))
    \/ \E r \in Reqs : WriteFileDone(r)
    \/ \E r \in Reqs : ExecFileError(r)
    \/ \E r \in Reqs : ChildRead(r)
    \/ \E r \in Reqs : Timeout(r)
    \/ \E r \in Reqs : ChildExit(r, {<<"x">>}, {<<>>})
    \/ \E r \in Reqs : UnlinkDone(r)

SpecConc == Init /\ [][NextConc]_vars

\* Inputs of the limiter specification: a well-formed body, an empty one, and
\* one over the size limit.
LimitRequests ==
    {[ctype |-> "application/octet-stream", hasBody |-> TRUE, payload |-> Rep(81, n)] :
        n \in {0, 4, MAX_FILE_SIZE + 1}}

\* One request to /decompile among the client's other requests, over several
\* windows of the limiter.
NextLimit ==
    \/ OtherRequest
    \/ WindowReset
    \/ Receive(1, LimitRequests)
    \/ WriteFileDone(1)
    \/ ExecFileError(1)
    \/ ChildRead(1)
    \/ Timeout(1)
    \/ ChildExit(1, {<<"x">>}, {<<>>})
    \/ UnlinkDone(1)

SpecLimit == Init /\ [][NextLimit]_vars

\* The scheduling the handler relies on: the event loop runs every settled
\* await (write, spawn error, unlink), execFile's timer fires while the child is
\* alive, and a child that was sent the kill signal ends.
Fairness ==
    /\ WF_vars(WriteFileDone(1))
    /\ WF_vars(ExecFileError(1))
    /\ WF_vars(UnlinkDone(1))
    /\ WF_vars(Timeout(1))
    /\ WF_vars(child[1].killed /\ ChildExit(1, Stdouts, Stderrs))

SpecLive == Spec /\ Fairness

(***************************************************************************)
(* Properties.                                                             *)
(***************************************************************************)
Done(r) == pc[r] = "done"
\* The request passed the limiter, so the rest of the chain saw it.
Admitted(r) == obs[r].admitted
\* The staged file of r is on disk.
StagedExists(r) == obs[r].staged # NoPath /\ files[obs[r].staged].exists
NoStaging(r) == obs[r].writes = 0 /\ obs[r].spawns = 0
NoFilesystem(r) == obs[r].writes = 0 /\ obs[r].unlinks = 0

\* C1 as stated: once the response of a request that wrote its temp file is
\* sent, on whatever path, the file is no longer on disk.
C1_StagedFileGone ==
    \A r \in Reqs :
        (Done(r) /\ body[r].kind = "buffer" /\ child[r].state # "none") =>
            ~StagedExists(r)

\* C1, amended: once the response of a request that created its temp file is
\* sent, on whatever path, exactly one unlink of the file has been attempted,
\* and the file is no longer on disk unless that unlink failed.
C1_CleanupAttempted ==
    \A r \in Reqs :
        (Done(r) /\ obs[r].created) =>
            /\ obs[r].unlinks = 1
            /\ StagedExists(r) => obs[r].unlinkFailed

\* A request whose write failed after creating the file has answered from the
\* catch block, and the file is gone.
C1_Witness ==
    \E r \in Reqs :
        /\ Done(r) /\ obs[r].created /\ obs[r].spawns = 0
        /\ caught[r].code = "ENOSPC"
        /\ ~StagedExists(r)

\* C2 as stated: a request whose body is longer than MAX_FILE_SIZE is answered
\* 413, and nothing was decoded, written or spawned for it.
C2_OversizeIs413 ==
    \A r \in Reqs :
        (Done(r) /\ Admitted(r) /\ req[r].hasBody /\ req[r].ctype # "none"
                 /\ Len(req[r].payload) > MAX_FILE_SIZE) =>
            /\ res[r].status = 413
            /\ ~obs[r].decoded
            /\ NoStaging(r)

\* C3 as stated: when BINARY_TIMEOUT fired on the running decompiler and the
\* kill ended it, the response is 504, the process has ended, and the unlink
\* of the temp file was made.
C3_TimeoutIs504 ==
    \A r \in Reqs :
        (Done(r) /\ body[r].kind = "buffer" /\ obs[r].timedOut
                 /\ obs[r].exit = BySigterm) =>
            /\ res[r].status = 504
            /\ child[r].state = "closed"
            /\ obs[r].unlinks = 1

\* RFC 4648 base64: digits of the standard alphabet in groups of four, the
\* last group padded with at most two '='.
IsBase64Digit(c) ==
    \/ c >= 65 /\ c <= 90
    \/ c >= 97 /\ c <= 122
    \/ c >= 48 /\ c <= 57
    \/ c \in {43, 47}
IsValidBase64(s) ==
    LET n == Len(s)
        pad == IF n >= 2 /\ s[n] = 61 /\ s[n - 1] = 61 THEN 2
               ELSE IF n >= 1 /\ s[n] = 61 THEN 1
               ELSE 0
    IN  /\ n % 4 = 0
        /\ \A i \in 1 .. n - pad : IsBase64Digit(s[i])

\* C4 as stated: with Content-Type text/plain and a body that is not valid
\* base64, the bytecode the handler goes on with is the literal body.
C4_InvalidBase64IsRaw ==
    \A r \in Reqs :
        (body[r].kind = "buffer" /\ req[r].ctype = "text/plain"
             /\ bytecode[r].kind = "buffer" /\ ~IsValidBase64(body[r].bytes)) =>
            bytecode[r].bytes = body[r].bytes

\* C5 as stated: when the decompiler wrote more than maxBuffer, the response
\* is 413.
C5_OverflowIs413 ==
    \A r \in Reqs :
        (Done(r) /\ body[r].kind = "buffer" /\ obs[r].overflow # "") =>
            res[r].status = 413

\* C6 as stated: a request with no body or a body of length 0 is answered 400,
\* and neither the filesystem nor a process was used for it.
C6_EmptyBodyIs400 ==
    \A r \in Reqs :
        (Done(r) /\ Admitted(r) /\ (~req[r].hasBody \/ Len(req[r].payload) = 0)) =>
            /\ res[r].status = 400
            /\ NoFilesystem(r)
            /\ obs[r].spawns = 0

OwnOutcomeResponse(r) ==
    IF caught[r] # NoError THEN ClassifyError(caught[r])
    ELSE OutputResponse(stdout[r])

\* C8: whatever the interleaving, every path of the temp directory is written,
\* read and unlinked on behalf of one request only; a decompiler reads the
\* bytes of its own request; what is left of a staged file holds its own
\* request's bytes; and the response of a request that went through the
\* pipeline is the one its own payload and its own outcomes determine.
C8_Isolation ==
    /\ \A n \in Names : Cardinality(touched[n]) <= 1
    /\ \A r \in Reqs :
        /\ obs[r].seen.read => (obs[r].seen.found /\ obs[r].seen.data = req[r].payload)
        /\ StagedExists(r) => files[obs[r].staged].data \in {req[r].payload, <<>>}
        /\ (Done(r) /\ obs[r].writes > 0) => res[r] = OwnOutcomeResponse(r)

\* Two decompilers run at the same time, each having read its own file.
C8_Witness ==
    \E r1 \in Reqs, r2 \in Reqs :
        /\ r1 # r2
        /\ child[r1].state = "running" /\ child[r2].state = "running"
        /\ obs[r1].staged # obs[r2].staged

\* stdout is empty or holds white space only.
IsBlank(out) == \A i \in 1 .. Len(out) : out[i] = " "

\* C9 as stated: when the decompiler exited with status zero and its stdout
\* (which stayed within maxBuffer) is blank, the response is 500
\* 'Decompilation failed: empty output', and the handler has by then made its
\* unlink of the temp file.
C9_BlankOutputIs500 ==
    \A r \in Reqs :
        (Done(r) /\ body[r].kind = "buffer" /\ obs[r].exit = ExitZero
                 /\ obs[r].overflow # "stdout" /\ IsBlank(stdout[r])) =>
            /\ res[r] = JsonError(500, MsgEmptyOutput)
            /\ obs[r].unlinks = 1

\* C9, amended: when the decompiler exited with status zero, neither of its
\* streams went over maxBuffer, and its stdout is blank, the response is 500
\* 'Decompilation failed: empty output', never 200, and the handler has by
\* then made its unlink of the temp file (which is gone unless that unlink
\* failed).
C9_BlankOutputWithinCeilingIs500 ==
    \A r \in Reqs :
        (Done(r) /\ obs[r].exit = ExitZero /\ obs[r].overflow = ""
                 /\ IsBlank(stdout[r])) =>
            /\ res[r] = JsonError(500, MsgEmptyOutput)
            /\ obs[r].unlinks = 1
            /\ tempFilePath[r] = NoPath
            /\ StagedExists(r) => obs[r].unlinkFailed

\* A decompiler that exited zero having written one space got the 500.
C9_Witness ==
    \E r \in Reqs :
        /\ Done(r) /\ obs[r].exit = ExitZero /\ obs[r].overflow = ""
        /\ stdout[r] = <<" ">>
        /\ res[r].status = 500
        /\ ~StagedExists(r)

\* C10 as stated: when the decompiler exited with status zero and its stdout
\* (which stayed within maxBuffer) is not blank, the response is 200,
\* text/plain; charset=utf-8, with stdout as its body, whatever went to stderr.
C10_OutputIs200 ==
    \A r \in Reqs :
        (Done(r) /\ body[r].kind = "buffer" /\ obs[r].exit = ExitZero
                 /\ obs[r].overflow # "stdout" /\ ~IsBlank(stdout[r])) =>
            /\ res[r].status = 200
            /\ res[r].ctype = "text/plain; charset=utf-8"
            /\ res[r].body = stdout[r]

\* C10, amended: when the decompiler exited with status zero, neither of its
\* streams went over maxBuffer, and its stdout is not blank, the response is
\* 200, text/plain; charset=utf-8, with stdout unchanged as its body, whatever
\* stderr (within maxBuffer) holds.
C10_OutputWithinCeilingIs200 ==
    \A r \in Reqs :
        (Done(r) /\ obs[r].exit = ExitZero /\ obs[r].overflow = ""
                 /\ ~IsBlank(stdout[r])) =>
            /\ res[r].status = 200
            /\ res[r].ctype = "text/plain; charset=utf-8"
            /\ res[r].body = stdout[r]
            /\ caught[r] = NoError

\* A decompiler that wrote to stderr and a padded text to stdout got the 200
\* with the text as it was.
C10_Witness ==
    \E r \in Reqs :
        /\ Done(r) /\ obs[r].exit = ExitZero
        /\ obs[r].warning # <<>>
        /\ stdout[r] = <<" ", "x">>
        /\ res[r].status = 200 /\ res[r].body = <<" ", "x">>

\* The write of r's temp file was made and failed.
WriteFailed(r) == obs[r].writes = 1 /\ child[r].state = "none"

\* C11 as stated: a request whose write of the staged file failed is answered
\* 500; the write was made once and no decompiler was spawned for it.
C11_WriteFailureIs500 ==
    \A r \in Reqs :
        (Done(r) /\ body[r].kind = "buffer" /\ WriteFailed(r)) =>
            /\ res[r].status = 500
            /\ obs[r].writes = 1
            /\ obs[r].spawns = 0

\* The value of a digit of the standard base64 alphabet (RFC 4648, table 1).
Base64Value(c) ==
    IF c >= 65 /\ c <= 90 THEN c - 65
    ELSE IF c >= 97 /\ c <= 122 THEN c - 97 + 26
    ELSE IF c >= 48 /\ c <= 57 THEN c - 48 + 52
    ELSE IF c = 43 THEN 62
    ELSE 63

\* The RFC 4648 decoding of a valid base64 text: each group of four characters
\* gives three bytes, a group ending in one or two '=' gives two or one.
RECURSIVE Base64Decode(_)
Base64Decode(s) ==
    IF Len(s) < 4 THEN <<>>
    ELSE LET a == Base64Value(s[1])
             b == Base64Value(s[2])
             c == Base64Value(s[3])
             d == Base64Value(s[4])
             b1 == a * 4 + (b \div 16)
             b2 == (b % 16) * 16 + (c \div 4)
             b3 == (c % 4) * 64 + d
         IN  IF s[3] = 61 THEN <<b1>>
             ELSE IF s[4] = 61 THEN <<b1, b2>>
             ELSE <<b1, b2, b3>> \o Base64Decode(SubSeq(s, 5, Len(s)))

\* C12: the bytes of a staged file that was written in full are determined by
\* the request's body and Content-Type: with text/plain and a body that is
\* valid base64 they are the base64 decoding of the body; with any other
\* Content-Type they are the body, byte for byte.
C12_StagedBytes ==
    \A r \in Reqs :
        (StagedExists(r) /\ child[r].state # "none" /\ body[r].kind = "buffer") =>
            /\ (req[r].ctype = "text/plain" /\ IsValidBase64(req[r].payload)) =>
                   files[obs[r].staged].data = Base64Decode(req[r].payload)
            /\ req[r].ctype # "text/plain" =>
                   files[obs[r].staged].data = req[r].payload

\* The text 'QQQQQQ==' sent as text/plain is staged as its four decoded bytes.
C12_Witness ==
    \E r \in Reqs :
        /\ req[r].ctype = "text/plain"
        /\ req[r].payload = <<81, 81, 81, 81, 81, 81, 61, 61>>
        /\ StagedExists(r) /\ child[r].state = "running"
        /\ files[obs[r].staged].data = <<65, 4, 16, 65>>

\* C13: a request that arrives when the window's budget is used up is answered
\* 429 by the limiter and nothing else is done for it: its body is not parsed
\* or validated, no name is drawn, no file is written or unlinked, no process
\* is spawned; and only such a request is answered 429.
C13_RejectedIs429 ==
    \A r \in Reqs :
        /\ (pc[r] # "idle" /\ obs[r].overLimit) =>
              /\ Done(r)
              /\ res[r] = JsonError(429, MsgTooManyRequests)
              /\ ~Admitted(r)
              /\ body[r] = NoBody /\ bytecode[r] = NoBytecode
              /\ tempFilePath[r] = NoPath
              /\ NoStaging(r) /\ NoFilesystem(r)
              /\ child[r] = NoChild
        /\ res[r].status = 429 => obs[r].overLimit

\* A request with an empty body that arrived over the limit got 429, not 400.
C13_Witness ==
    \E r \in Reqs :
        /\ Done(r) /\ obs[r].overLimit
        /\ req[r].hasBody /\ req[r].payload = <<>>
        /\ res[r].status = 429

\* The spawn of the decompiler failed because the executable does not exist.
BinaryMissing(r) == child[r].state = "failed" /\ child[r].ex = "ENOENT"

InvocationFailed(r) ==
    \/ child[r].state = "failed"
    \/ child[r].state = "closed" /\ obs[r].exit # ExitZero

\* C15 as stated: an invocation that failed otherwise than by the timeout, the
\* missing executable or the output ceiling is answered 500 'Internal
\* decompilation error', and its stdout is not sent.
C15_OtherFailureIs500 ==
    \A r \in Reqs :
        (Done(r) /\ body[r].kind = "buffer" /\ InvocationFailed(r)
                 /\ ~obs[r].timedOut /\ obs[r].overflow = "" /\ ~BinaryMissing(r)) =>
            /\ res[r] = JsonError(500, MsgInternalDecompilation)
            /\ res[r].body # stdout[r]

\* C15, amended: an invocation that failed otherwise than by the timeout, the
\* missing executable, the output ceiling or a SIGKILL from outside (in
\* particular every non-zero exit, whatever it wrote to stdout) is answered 500
\* 'Internal decompilation error', and its stdout is not sent.
C15_OtherFailureNotKilledIs500 ==
    \A r \in Reqs :
        (Done(r) /\ InvocationFailed(r)
                 /\ ~obs[r].timedOut /\ obs[r].overflow = "" /\ ~BinaryMissing(r)
                 /\ obs[r].exit # BySigkill) =>
            /\ res[r] = JsonError(500, MsgInternalDecompilation)
            /\ res[r].status # 200
            /\ res[r].body # stdout[r]

\* A decompiler that wrote a text and exited with status 1 got the generic 500.
C15_Witness ==
    \E r \in Reqs :
        /\ Done(r) /\ obs[r].exit = ExitOne /\ ~obs[r].timedOut /\ obs[r].overflow = ""
        /\ stdout[r] = <<"x">>
        /\ res[r] = JsonError(500, MsgInternalDecompilation)

\* The messages an error response can carry.
ErrorMessages ==
    {MsgTooManyRequests, MsgNoBytecode, MsgPayloadTooLarge, MsgTooShort, MsgEmptyOutput,
     MsgTimeout, MsgBinaryNotFound, MsgTooComplex, MsgInternalDecompilation,
     MsgInternalServer}

\* C16: every response other than the 200 is a JSON object {error: m} with m
\* one of a fixed set of messages, and two requests whose caught errors have
\* the same code and signal get the same response, whatever their temp file
\* paths and the messages of their errors.
C16_NoLeak ==
    /\ \A r \in Reqs :
        (Done(r) /\ res[r].status # 200) =>
            /\ res[r].ctype = "application/json"
            /\ res[r].body \in {<<"error", m>> : m \in ErrorMessages}
    /\ \A r1 \in Reqs, r2 \in Reqs :
        (/\ Done(r1) /\ Done(r2)
         /\ caught[r1] # NoError /\ caught[r2] # NoError
         /\ caught[r1].code = caught[r2].code
         /\ caught[r1].signal = caught[r2].signal) =>
            res[r1] = res[r2]

\* Two requests failed the same way on different temp files, with errors whose
\* messages differ, and got the same response.
C16_Witness ==
    \E r1 \in Reqs, r2 \in Reqs :
        /\ Done(r1) /\ Done(r2)
        /\ obs[r1].staged # NoPath /\ obs[r2].staged # NoPath
        /\ obs[r1].staged # obs[r2].staged
        /\ caught[r1].code = "1" /\ caught[r2].code = "1"
        /\ caught[r1].message # caught[r2].message
        /\ res[r1] = res[r2]

\* C17: a request whose unlink of the staged file failed, on the success path
\* or in the catch block, is answered once, with the response its caught error
\* or else its stdout determines: the one it gets when the unlink succeeds.
C17_FailedUnlinkSameResponse ==
    \A r \in Reqs :
        (Done(r) /\ obs[r].unlinks = 1) =>
            /\ obs[r].sends = 1
            /\ res[r] = IF caught[r] # NoError THEN ClassifyError(caught[r])
                        ELSE OutputResponse(stdout[r])

\* The unlink failed after a successful decompilation, and the 200 was sent.
C17_Witness ==
    \E r \in Reqs :
        /\ Done(r) /\ obs[r].unlinkFailed /\ StagedExists(r)
        /\ caught[r] = NoError
        /\ res[r] = SuccessResponse(<<"x">>)

\* C18: every request that was received is eventually answered, given that
\* settled awaits run, the timer of execFile fires while the child is alive,
\* and a child that was sent the kill signal ends.
C18_EventuallyResponds == (pc[1] # "idle") ~> Done(1)

\* A request whose decompiler ran into the timeout and died of the SIGTERM was
\* answered.
C18_Witness ==
    /\ Done(1) /\ obs[1].timedOut /\ obs[1].exit = BySigterm
    /\ res[1].status # 0

\* C19: for each request at most one file is written and at most one process
\* spawned; a process is spawned only after the write succeeded; while the
\* process runs the request has neither unlinked its file nor answered, and
\* the file is there; the unlink comes after the process ended, and the
\* response after the unlink.
C19_StepOrder ==
    \A r \in Reqs :
        /\ obs[r].writes <= 1 /\ obs[r].spawns <= 1 /\ obs[r].unlinks <= 1
        /\ child[r].state # "none" => (obs[r].writes = 1 /\ obs[r].created)
        /\ obs[r].spawns = 1 => child[r].state \in {"spawned", "running", "closed"}
        /\ ChildAlive(r) =>
              /\ obs[r].unlinks = 0
              /\ res[r] = NoResponse
              /\ StagedExists(r) /\ files[obs[r].staged].data = bytecode[r].bytes
        /\ (obs[r].unlinks = 1 /\ obs[r].spawns = 1) => child[r].state = "closed"
        /\ (Done(r) /\ obs[r].writes = 1) => obs[r].unlinks = 1
        /\ obs[r].unlinks = 1 => Done(r)

\* A request went through all five steps.
C19_Witness ==
    \E r \in Reqs :
        /\ Done(r) /\ obs[r].writes = 1 /\ obs[r].spawns = 1
        /\ obs[r].seen.read /\ child[r].state = "closed" /\ obs[r].timedOut
        /\ obs[r].unlinks = 1 /\ ~StagedExists(r)

\* C20 as stated: a response 504 'Decompilation timeout exceeded' or 500
\* 'Decompiler binary not found' is sent only for a request whose decompiler
\* was invoked, and whose invocation timed out, or found no executable.
C20_OnlyInvocationFailures ==
    \A r \in Reqs :
        (Done(r) /\ body[r].kind = "buffer") =>
            /\ res[r] = JsonError(504, MsgTimeout) =>
                  (child[r].state # "none" /\ obs[r].timedOut)
            /\ res[r] = JsonError(500, MsgBinaryNotFound) => BinaryMissing(r)

\* C21: a request that was received is answered exactly once, on whatever
\* path: no response is sent before the handler is done with the request, and
\* one and only one has been sent when it is.
C21_ExactlyOneResponse ==
    \A r \in Reqs :
        /\ obs[r].sends <= 1
        /\ Done(r) <=> obs[r].sends = 1
        /\ Done(r) <=> res[r] # NoResponse

\* A request answered from the catch block after its unlink got one response.
C21_Witness ==
    \E r \in Reqs :
        /\ Done(r) /\ obs[r].exit = ExitOne /\ obs[r].unlinks = 1
        /\ caught[r] # NoError
        /\ obs[r].sends = 1 /\ res[r].status = 500

\* C22: whenever a temp file was written or a decompiler was spawned for a
\* request, its bytecode, raw or decoded, is a buffer of at least 4 and at most
\* MAX_FILE_SIZE bytes, and a file written in full holds that many bytes.
C22_StagedLength ==
    \A r \in Reqs :
        /\ (obs[r].writes > 0 \/ obs[r].spawns > 0 \/ child[r].state # "none") =>
              /\ bytecode[r].kind = "buffer"
              /\ Len(bytecode[r].bytes) >= 4
              /\ Len(bytecode[r].bytes) <= MAX_FILE_SIZE
        /\ (StagedExists(r) /\ child[r].state # "none") =>
              /\ Len(files[obs[r].staged].data) >= 4
              /\ Len(files[obs[r].staged].data) <= MAX_FILE_SIZE

\* A raw body of exactly MAX_FILE_SIZE bytes is staged and its decompiler runs.
C22_Witness ==
    \E r \in Reqs :
        /\ req[r].ctype = "application/octet-stream"
        /\ Len(req[r].payload) = MAX_FILE_SIZE
        /\ obs[r].spawns = 1 /\ ChildAlive(r)
        /\ StagedExists(r) /\ Len(files[obs[r].staged].data) = MAX_FILE_SIZE

====
